---- MODULE Spec2Model ----
(***************************************************************************)
(* Model of labphew's Digilent WaveForms controller (DfwController,        *)
(* enumerate_devices) and of the Monitor window's start/stop handlers.     *)
(*                                                                         *)
(* Units: time in milliseconds, voltage in volts, the local read timeout   *)
(* of wait_for_ai_acquisition in microseconds (so that 1.9 + n/freq is an  *)
(* integer for the buffer sizes and frequencies used).                     *)
(*                                                                         *)
(* The clock is read at one value inside one step of a handler: two        *)
(* consecutive statements of the source see the same time.time(); time     *)
(* passes between handlers, between two status polls and inside            *)
(* time.sleep.                                                             *)
(***************************************************************************)
EXTENDS Integers, Sequences, FiniteSets, TLC

VARIABLES
    now,                      \* time.time()
    time_stabilized,          \* self._time_stabilized
    last_ao0,                 \* self._last_ao0
    last_ao1,                 \* self._last_ao1
    basic_analog_return_std,  \* self._basic_analog_return_std
    self_read_timeout,        \* self._read_timeout
    ai,                       \* analog-in interface of every controller object
    ao,                       \* self.ao: one record per analog-out channel
    daq,                      \* what the module-level name daq is bound to
    pc,                       \* where the controller's caller is blocked
    caller,                   \* the method that entered the acquisition wait
    wait,                     \* local of wait_for_stabilization
    start_timestamp,          \* local of wait_for_ai_acquisition
    read_timeout,             \* local of wait_for_ai_acquisition
    ret,                      \* what the last finished call returned or raised
    errors,                   \* logger.error records of the last call
    lastCall,                 \* history: the last call and its arguments
    lastPoll,                 \* history: the last status poll of the last call
    presetStd,                \* history: return_std of the last preset call
    enum,                     \* enumerate_devices: its frame
    mon                       \* MonitorWindow and the objects it drives

vars == <<now, time_stabilized, last_ao0, last_ao1, basic_analog_return_std,
          self_read_timeout, ai, ao, daq, pc, caller, wait, start_timestamp,
          read_timeout, ret, errors, lastCall, lastPoll, presetStd, enum, mon>>

ctlVars == <<now, time_stabilized, last_ao0, last_ao1, basic_analog_return_std,
             self_read_timeout, ai, ao, daq, pc, caller, wait, start_timestamp,
             read_timeout, ret, errors, lastCall, lastPoll, presetStd>>

----------------------------------------------------------------------------
(* Bounds of the model *)

\* the clock stops at MaxTime
MaxTime == 1940

\* longest device list handed to enumerate_devices
MaxDevices == 3

\* worker threads the Monitor window may create
MaxThreads == 3

\* samples the monitor worker may produce
MaxSamples == 3

(* Program constants *)

FixedLatency == 13          \* 0.013 s
PerVoltLatency == 5         \* 0.005 s per volt
TimeoutBase == 1900         \* 1.9 s
ReadTimeoutInit == 1000000  \* self._read_timeout = 1, in microseconds
DefaultN == 84
DefaultFreq == 10000
DefaultRange == 50

(* Inputs *)

Volts == {0, 2}
Channels == {0, 1}
ChannelSelectors == {0, 1, -1}
BufferSizes == {20, DefaultN}
Frequencies == {1000, DefaultFreq}
PresetArgs == { <<DefaultN, DefaultFreq, DefaultRange, FALSE>>,
                <<DefaultN, DefaultFreq, DefaultRange, TRUE>>,
                <<20, 1000, 5, TRUE>> }
FineTick == 5
TickSteps == {FineTick, TimeoutBase}

NoneTs == -1                 \* start_timestamp=None
StartArgs == {NoneTs, 0}     \* no timestamp, or the one taken at construction

\* The clock takes its values in two windows, [0, Horizon] after construction and
\* [TimeoutBase, MaxTime], one long step apart: the settling estimates are tens of
\* milliseconds and the read timeout is 1.9 s and more.
Horizon == MaxTime - TimeoutBase
InWindow(t) == (0 <= t /\ t <= Horizon) \/ (TimeoutBase <= t /\ t <= MaxTime)

\* the controller whose methods are called, and another controller object
Self == "c1"
Other == "c2"
Instances == {Self, Other}
Unbound == "unbound"

Max(a, b) == IF a >= b THEN a ELSE b
Abs(x) == IF x < 0 THEN -x ELSE x

----------------------------------------------------------------------------
(* The vendor interface, as far as the controller drives it *)

Selected(channel) == IF channel = -1 THEN Channels ELSE {channel}

AoReset(a) == [c \in Channels |-> [func |-> "DC", offset |-> 0, run |-> FALSE]]

AoNodeFunctionSet(a, channel, func) ==
    [c \in Channels |-> IF c \in Selected(channel)
                        THEN [a[c] EXCEPT !.func = func] ELSE a[c]]

AoNodeOffsetSet(a, channel, volt) ==
    [c \in Channels |-> IF c \in Selected(channel)
                        THEN [a[c] EXCEPT !.offset = volt] ELSE a[c]]

\* configure(channel, 0) stops, configure(channel, 1) starts, configure(channel, 3)
\* applies the settings and leaves the running state alone
AoConfigure(a, channel, start) ==
    [c \in Channels |-> IF c \in Selected(channel) /\ start \in {0, 1}
                        THEN [a[c] EXCEPT !.run = (start = 1)] ELSE a[c]]

\* reset() leaves the interface idle; the vendor's reset values of buffer size,
\* frequency and range are overwritten before preset_basic_analog returns
AiReset(a) == [a EXCEPT !.state = "ready"]

AiConfigure(a, start) == [a EXCEPT !.state = IF start = 1 THEN "running" ELSE "ready"]

----------------------------------------------------------------------------
(* Values returned, and the history the properties read *)

NoRet == [kind |-> "none", n |-> 0, vals |-> <<>>]
Returned(kind, n, vals) == [kind |-> kind, n |-> n, vals |-> vals]
Raised(exc) == [kind |-> "raise", n |-> 0, vals |-> <<exc>>]

NoPoll == [t |-> -1, st |-> "none"]

Call(op, args) == [op |-> op, args |-> args, again |-> FALSE]

Flag(b) == IF b THEN 1 ELSE 0

----------------------------------------------------------------------------
(* DfwController *)

InitController ==
    /\ now = 0
    /\ time_stabilized = 0
    /\ last_ao0 = 0
    /\ last_ao1 = 0
    /\ basic_analog_return_std = FALSE
    /\ self_read_timeout = ReadTimeoutInit
    /\ ai = [i \in Instances |-> [bufferSize |-> DefaultN, frequency |-> DefaultFreq,
                                  range |-> DefaultRange, state |-> "ready"]]
    /\ ao = [c \in Channels |-> [func |-> "DC", offset |-> 0, run |-> TRUE]]
    /\ daq \in {Unbound, Self, Other}
    /\ pc = "idle"
    /\ caller = "none"
    /\ wait = 0
    /\ start_timestamp = 0
    /\ read_timeout = 0
    /\ ret = NoRet
    /\ errors = 0
    /\ lastCall = Call("__init__", <<>>)
    /\ lastPoll = NoPoll
    /\ presetStd = FALSE

\* the timeout stored from the configuration read before the new one is applied
PresetReadTimeoutBefore(old, aiBefore, aiAfter) ==
    TimeoutBase * 1000 + (aiBefore.bufferSize * 1000000) \div aiBefore.frequency

\* line 84 is commented out: preset_basic_analog leaves self._read_timeout alone
PresetReadTimeout(old, aiBefore, aiAfter) == old

\* preset_basic_analog never assigns self._basic_analog_return_std
PresetReturnStd(old, return_std) == old

PresetAi(a, n, freq, range) ==
    LET a1 == AiReset(a)
        a2 == [a1 EXCEPT !.bufferSize = n]
        a3 == [a2 EXCEPT !.frequency = freq]
        a4 == [a3 EXCEPT !.range = range]
    IN  AiConfigure(a4, 0)

PresetAo(a) ==
    LET a1 == AoReset(a)
        a2 == AoNodeFunctionSet(a1, -1, "DC")
        a3 == AoConfigure(a2, -1, 3)
    IN  AoConfigure(a3, -1, 1)

preset_basic_analog(n, freq, range, return_std) ==
    /\ pc = "idle"
    /\ ao' = PresetAo(ao)
    /\ ai' = [ai EXCEPT ![Self] = PresetAi(ai[Self], n, freq, range)]
    /\ self_read_timeout' =
           PresetReadTimeout(self_read_timeout, ai[Self], PresetAi(ai[Self], n, freq, range))
    /\ basic_analog_return_std' = PresetReturnStd(basic_analog_return_std, return_std)
    /\ presetStd' = return_std
    /\ lastCall' = [op |-> "preset_basic_analog",
                    args |-> <<n, freq, range, Flag(return_std)>>,
                    again |-> /\ lastCall.op = "preset_basic_analog"
                              /\ lastCall.args = <<n, freq, range, Flag(return_std)>>]
    /\ ret' = NoRet
    /\ errors' = 0
    /\ lastPoll' = NoPoll
    /\ UNCHANGED <<now, time_stabilized, last_ao0, last_ao1, daq, pc, caller, wait,
                   start_timestamp, read_timeout, enum, mon>>

stop_analog_out(channel) ==
    /\ pc = "idle"
    /\ ao' = AoConfigure(ao, channel, 0)
    /\ lastCall' = Call("stop_analog_out", <<>>)
    /\ ret' = NoRet
    /\ errors' = 0
    /\ lastPoll' = NoPoll
    /\ UNCHANGED <<now, time_stabilized, last_ao0, last_ao1, basic_analog_return_std,
                   self_read_timeout, ai, daq, pc, caller, wait, start_timestamp,
                   read_timeout, presetStd, enum, mon>>

\* the estimate without max(): the newest estimate replaces the stored one
StabilizedNoMax(prev, t, last, volt) ==
    t + FixedLatency + PerVoltLatency * Abs(last - volt)

\* max(self._time_stabilized, time.time()+0.013+0.005*abs(last-volt))
Stabilized(prev, t, last, volt) ==
    Max(prev, t + FixedLatency + PerVoltLatency * Abs(last - volt))

\* the conditions of lines 113 and 116, as written
UpdatesAo0(channel) == channel = 0 \/ channel = -1
UpdatesAo1(channel) == channel = 0 \/ channel = -1

write_analog(volt, channel) ==
    LET t0 == IF UpdatesAo0(channel)
              THEN Stabilized(time_stabilized, now, last_ao0, volt)
              ELSE time_stabilized
        t1 == IF UpdatesAo1(channel)
              THEN Stabilized(t0, now, last_ao1, volt)
              ELSE t0
    IN  /\ pc = "idle"
        /\ InWindow(t1)
        /\ ao' = AoConfigure(AoNodeOffsetSet(ao, channel, volt), channel, 1)
        /\ time_stabilized' = t1
        /\ last_ao0' = IF UpdatesAo0(channel) THEN volt ELSE last_ao0
        /\ last_ao1' = IF UpdatesAo1(channel) THEN volt ELSE last_ao1
        /\ lastCall' = Call("write_analog", <<>>)
        /\ ret' = NoRet
        /\ errors' = 0
        /\ lastPoll' = NoPoll
        /\ UNCHANGED <<now, basic_analog_return_std, self_read_timeout, ai, daq, pc,
                       caller, wait, start_timestamp, read_timeout, presetStd, enum, mon>>

\* the difference taken the wrong way round
RemainingSwapped(stabilized, t) == t - stabilized

\* wait = self._time_stabilized - time.time()
Remaining(stabilized, t) == stabilized - t

\* if wait > 0: sleep
MustSleep(w) == w > 0

wait_for_stabilization ==
    /\ pc = "idle"
    /\ IF MustSleep(Remaining(time_stabilized, now))
       THEN pc' = "sleep" /\ wait' = Remaining(time_stabilized, now) /\ ret' = NoRet
       ELSE pc' = "idle" /\ wait' = 0 /\ ret' = Returned("stabilization", 0, <<>>)
    /\ lastCall' = Call("wait_for_stabilization", <<>>)
    /\ errors' = 0
    /\ lastPoll' = NoPoll
    /\ UNCHANGED <<now, time_stabilized, last_ao0, last_ao1, basic_analog_return_std,
                   self_read_timeout, ai, ao, daq, caller, start_timestamp,
                   read_timeout, presetStd, enum, mon>>

\* time.sleep(wait) ends and wait_for_stabilization returns wait
Wake ==
    /\ pc = "sleep"
    /\ now' = now + wait
    /\ pc' = "idle"
    /\ ret' = Returned("stabilization", wait, <<>>)
    /\ wait' = 0
    /\ UNCHANGED <<time_stabilized, last_ao0, last_ao1, basic_analog_return_std,
                   self_read_timeout, ai, ao, daq, caller, start_timestamp,
                   read_timeout, errors, lastCall, lastPoll, presetStd, enum, mon>>

\* the timeout taken from the attribute set at construction
ReadTimeoutStored(bufferSize, frequency) == ReadTimeoutInit

\* read_timeout = 1.9 + self.ai.bufferSizeGet() / self.ai.frequencyGet(), in microseconds
ReadTimeout(bufferSize, frequency) == TimeoutBase * 1000 + (bufferSize * 1000000) \div frequency

\* a deadline taken from a clock read anew in every pass never lies in the past
TimedOutNever(t, start, timeoutUs) == t * 1000 > t * 1000 + timeoutUs

\* time.time() > start_timestamp + read_timeout
TimedOut(t, start, timeoutUs) == t * 1000 > start * 1000 + timeoutUs

\* if start_timestamp is None: start_timestamp = time.time()
StartOf(arg, t) == IF arg = NoneTs THEN t ELSE arg

\* tuple([None, None])*(1+self._basic_analog_return_std)
NoneTuple(std) == IF std THEN <<"None", "None", "None", "None">> ELSE <<"None", "None">>

\* c0.mean(), c1.mean() [, c0.std(), c1.std()]
DataTuple(std) == IF std THEN <<"mean", "mean", "std", "std">> ELSE <<"mean", "mean">>

\* lines 165-167: the frame of wait_for_ai_acquisition, before its first poll
EnterAcquisitionWait(arg, by) ==
    /\ start_timestamp' = StartOf(arg, now)
    /\ read_timeout' = ReadTimeout(ai[Self].bufferSize, ai[Self].frequency)
    /\ pc' = "poll"
    /\ caller' = by

wait_for_ai_acquisition(arg) ==
    /\ pc = "idle"
    /\ EnterAcquisitionWait(arg, "wait_for_ai_acquisition")
    /\ lastCall' = Call("wait_for_ai_acquisition", <<StartOf(arg, now)>>)
    /\ ret' = NoRet
    /\ errors' = 0
    /\ lastPoll' = NoPoll
    /\ UNCHANGED <<now, time_stabilized, last_ao0, last_ao1, basic_analog_return_std,
                   self_read_timeout, ai, ao, daq, wait, presetStd, enum, mon>>

\* the interface line 142 starts, lines 145-147 read and line 168 polls: daq.ai
AcquisitionInterface == daq

read_analog ==
    /\ pc = "idle"
    /\ lastCall' = Call("read_analog", <<now>>)
    /\ errors' = 0
    /\ lastPoll' = NoPoll
    /\ IF AcquisitionInterface = Unbound
       THEN /\ ret' = Raised("NameError")
            /\ UNCHANGED <<ai, pc, caller, start_timestamp, read_timeout>>
       ELSE /\ ai' = [ai EXCEPT ![AcquisitionInterface] = AiConfigure(@, 1)]
            /\ EnterAcquisitionWait(NoneTs, "read_analog")
            /\ ret' = NoRet
    /\ UNCHANGED <<now, time_stabilized, last_ao0, last_ao1, basic_analog_return_std,
                   self_read_timeout, ao, daq, wait, presetStd, enum, mon>>

\* what the call that entered the wait returns once the loop ends
AfterWait(by, timedOut, std) ==
    IF by = "read_analog"
    THEN Returned("read", 0, IF timedOut THEN NoneTuple(std) ELSE DataTuple(std))
    ELSE Returned("acquisition", 0, IF timedOut THEN <<"True">> ELSE <<"None">>)

\* the frame of wait_for_ai_acquisition is dropped
LeaveAcquisitionWait ==
    /\ pc' = "idle"
    /\ caller' = "none"
    /\ start_timestamp' = 0
    /\ read_timeout' = 0

\* one pass of the loop of lines 168-171
Poll ==
    /\ pc = "poll"
    /\ IF AcquisitionInterface = Unbound
       THEN /\ ret' = Raised("NameError")
            /\ LeaveAcquisitionWait
            /\ UNCHANGED <<errors, lastPoll>>
       ELSE /\ lastPoll' = [t |-> now, st |-> ai[AcquisitionInterface].state]
            /\ IF ai[AcquisitionInterface].state = "done"
               THEN /\ LeaveAcquisitionWait
                    /\ ret' = AfterWait(caller, FALSE, basic_analog_return_std)
                    /\ errors' = errors
               ELSE IF TimedOut(now, start_timestamp, read_timeout)
               THEN /\ LeaveAcquisitionWait
                    /\ ret' = AfterWait(caller, TRUE, basic_analog_return_std)
                    /\ errors' = errors + 1
               ELSE UNCHANGED <<pc, caller, start_timestamp, read_timeout, ret, errors>>
    /\ UNCHANGED <<now, time_stabilized, last_ao0, last_ao1, basic_analog_return_std,
                   self_read_timeout, ai, ao, daq, wait, lastCall, presetStd, enum, mon>>

\* the device finishes a running acquisition
DeviceDone(i) ==
    /\ ai[i].state = "running"
    /\ ai' = [ai EXCEPT ![i].state = "done"]
    /\ UNCHANGED <<now, time_stabilized, last_ao0, last_ao1, basic_analog_return_std,
                   self_read_timeout, ao, daq, pc, caller, wait, start_timestamp,
                   read_timeout, ret, errors, lastCall, lastPoll, presetStd, enum, mon>>

\* the caller reconfigures analog-in through the inherited interface
ai_bufferSizeSet(n) ==
    /\ pc = "idle"
    /\ ai' = [ai EXCEPT ![Self].bufferSize = n]
    /\ lastCall' = Call("ai.bufferSizeSet", <<>>)
    /\ ret' = NoRet
    /\ errors' = 0
    /\ lastPoll' = NoPoll
    /\ UNCHANGED <<now, time_stabilized, last_ao0, last_ao1, basic_analog_return_std,
                   self_read_timeout, ao, daq, pc, caller, wait, start_timestamp,
                   read_timeout, presetStd, enum, mon>>

ai_frequencySet(freq) ==
    /\ pc = "idle"
    /\ ai' = [ai EXCEPT ![Self].frequency = freq]
    /\ lastCall' = Call("ai.frequencySet", <<>>)
    /\ ret' = NoRet
    /\ errors' = 0
    /\ lastPoll' = NoPoll
    /\ UNCHANGED <<now, time_stabilized, last_ao0, last_ao1, basic_analog_return_std,
                   self_read_timeout, ao, daq, pc, caller, wait, start_timestamp,
                   read_timeout, presetStd, enum, mon>>

\* the caller selects a waveform through the inherited interface
ao_nodeFunctionSet(channel, func) ==
    /\ pc = "idle"
    /\ ao' = AoNodeFunctionSet(ao, channel, func)
    /\ lastCall' = Call("ao.nodeFunctionSet", <<>>)
    /\ ret' = NoRet
    /\ errors' = 0
    /\ lastPoll' = NoPoll
    /\ UNCHANGED <<now, time_stabilized, last_ao0, last_ao1, basic_analog_return_std,
                   self_read_timeout, ai, daq, pc, caller, wait, start_timestamp,
                   read_timeout, presetStd, enum, mon>>

\* time passes, except inside time.sleep, whose passing is Wake
Tick(d) ==
    /\ pc # "sleep"
    /\ InWindow(now + d)
    /\ now' = now + d
    /\ UNCHANGED <<time_stabilized, last_ao0, last_ao1, basic_analog_return_std,
                   self_read_timeout, ai, ao, daq, pc, caller, wait, start_timestamp,
                   read_timeout, ret, errors, lastCall, lastPoll, presetStd, enum, mon>>

----------------------------------------------------------------------------
(* enumerate_devices *)

\* the calls of the loop body that can raise, in the order of lines 196-223
CommonPoints == {"SN", "deviceName", "userName", "isOpened"}
QueryPoints == {"DwfAnalogIn", "channelCount", "frequencyInfo", "close",
                "FDwfEnumConfig", "FDwfEnumConfigInfo", "closeAgain"}
FailPoints == CommonPoints \cup QueryPoints

NoFail == [dev |-> 0, at |-> "none"]

\* a connected device: whether a connection to it is open, and its configurations
Devices == [opened : BOOLEAN, ncfg : {1, 2}]
DeviceLists == UNION { [1..k -> Devices] : k \in 0..MaxDevices }

\* whether the call named by point is executed for the device
Executes(device, point) == point \in CommonPoints \/ ~device.opened

\* dev_dict as it stands when the body has run to line 224
Entry(device, i) ==
    [SN |-> i, configs |-> IF device.opened THEN 0 ELSE device.ncfg, queried |-> ~device.opened]

\* dev_dict as it stands when the call at point raises
PartialEntry(device, i, point) ==
    [SN |-> IF point = "SN" THEN 0 ELSE i, configs |-> 0, queried |-> FALSE]

\* the entry appended as soon as it is created (line 195) instead of at line 224
DevicesAfterBodyEager(devices, entry, completed) == Append(devices, entry)

\* devices.append(dev_dict) is the last statement of the body
DevicesAfterBody(devices, entry, completed) ==
    IF completed THEN Append(devices, entry) ELSE devices

InitEnum ==
    enum = [pc |-> "idle", devs |-> <<>>, fail |-> NoFail, i |-> 0,
            devices |-> <<>>, warnings |-> <<>>, caught |-> 0]

\* lines 187-191: the list, the warning of line 189 and the enumeration
enumerate_devices(devs, fail) ==
    /\ enum.pc = "idle"
    /\ fail.dev <= Len(devs)
    /\ enum' = [pc |-> "loop", devs |-> devs, fail |-> fail, i |-> 1,
                devices |-> <<>>, warnings |-> <<"last_error">>, caught |-> 0]
    /\ UNCHANGED <<ctlVars, mon>>

\* one pass of the loop of lines 194-224, or the handler of lines 225-227
enumerate_body ==
    /\ enum.pc = "loop"
    /\ enum.i <= Len(enum.devs)
    /\ LET i == enum.i
           device == enum.devs[i]
       IN  IF enum.fail.dev = i /\ Executes(device, enum.fail.at)
           THEN enum' = [enum EXCEPT
                    !.devices = DevicesAfterBody(@, PartialEntry(device, i, enum.fail.at), FALSE),
                    !.warnings = Append(@, "exception"),
                    !.caught = i,
                    !.pc = "returned"]
           ELSE enum' = [enum EXCEPT
                    !.devices = DevicesAfterBody(@, Entry(device, i), TRUE),
                    !.warnings = IF device.opened THEN Append(@, "already_open") ELSE @,
                    !.i = i + 1]
    /\ UNCHANGED <<ctlVars, mon>>

\* line 228 after the last pass
enumerate_return ==
    /\ enum.pc = "loop"
    /\ enum.i > Len(enum.devs)
    /\ enum' = [enum EXCEPT !.pc = "returned"]
    /\ UNCHANGED <<ctlVars, mon>>

EnumNext ==
    \/ /\ enum.pc = "idle"
       /\ \E devs \in DeviceLists :
             \E fail \in {NoFail} \cup [dev : 1..Len(devs), at : FailPoints] :
                 enumerate_devices(devs, fail)
    \/ enumerate_body
    \/ enumerate_return

----------------------------------------------------------------------------
(* MonitorWindow *)

DelayTexts == {"10ms", "1s"}

InitMonitor ==
    mon = [running_monitor |-> FALSE,
           timer_active |-> FALSE,
           worker_thread |-> 0,
           threads |-> <<>>,
           time_resolution |-> "none",
           operator_data |-> 0,
           xdata |-> 0]

\* the test of line 71 never finds the monitor running
AlreadyRunningNever(m) == FALSE

\* if self.running_monitor
AlreadyRunning(m) == m.running_monitor

\* the start button; delay is the text of delayLine
start_monitor(delay) ==
    /\ IF AlreadyRunning(mon)
       THEN mon' = mon
       ELSE /\ Len(mon.threads) < MaxThreads
            /\ mon' = [mon EXCEPT
                   !.running_monitor = TRUE,
                   !.time_resolution = delay,
                   !.threads = Append(@, "running"),
                   !.worker_thread = Len(mon.threads) + 1,
                   !.timer_active = TRUE]
    /\ UNCHANGED <<ctlVars, enum>>

\* the stop button
stop_monitor ==
    /\ IF ~mon.running_monitor
       THEN mon' = mon
       ELSE mon' = [mon EXCEPT
                !.timer_active = FALSE,
                !.threads[mon.worker_thread] = "terminated",
                !.running_monitor = FALSE]
    /\ UNCHANGED <<ctlVars, enum>>

\* the timer's timeout: the window copies the operator's data
update_monitor ==
    /\ mon.timer_active
    /\ mon' = [mon EXCEPT !.xdata = mon.operator_data]
    /\ UNCHANGED <<ctlVars, enum>>

\* a worker that was started and not terminated acquires one more sample
monitor_signal(t) ==
    /\ mon.threads[t] = "running"
    /\ mon.operator_data < MaxSamples
    /\ mon' = [mon EXCEPT !.operator_data = @ + 1]
    /\ UNCHANGED <<ctlVars, enum>>

MonNext ==
    \/ \E delay \in DelayTexts : start_monitor(delay)
    \/ stop_monitor
    \/ update_monitor
    \/ \E t \in 1..Len(mon.threads) : monitor_signal(t)

----------------------------------------------------------------------------

Init == InitController /\ InitEnum /\ InitMonitor

\* analog out and its settling estimate, with reads in between
Next ==
    \/ preset_basic_analog(DefaultN, DefaultFreq, DefaultRange, FALSE)
    \/ \E c \in ChannelSelectors : stop_analog_out(c)
    \/ \E v \in Volts, c \in ChannelSelectors : write_analog(v, c)
    \/ wait_for_stabilization
    \/ Wake
    \/ read_analog
    \/ Poll
    \/ \E i \in Instances : DeviceDone(i)
    \/ \E d \in TickSteps : Tick(d)

Spec == Init /\ [][Next]_vars

\* analog in: presets, reconfiguration outside preset, reads and acquisition waits
AcqNext ==
    \/ \E a \in PresetArgs : preset_basic_analog(a[1], a[2], a[3], a[4])
    \/ \E n \in BufferSizes : ai_bufferSizeSet(n)
    \/ \E f \in Frequencies : ai_frequencySet(f)
    \/ read_analog
    \/ \E a \in StartArgs : wait_for_ai_acquisition(a)
    \/ Poll
    \/ \E i \in Instances : DeviceDone(i)
    \/ \E d \in TickSteps : Tick(d)

AcqSpec == Init /\ [][AcqNext]_vars

EnumSpec == Init /\ [][EnumNext]_vars

MonSpec == Init /\ [][MonNext]_vars

\* The blocking calls under a clock that keeps advancing. The clock of the model
\* stops at MaxTime, so an acquisition wait is entered only when its deadline
\* lies before the last value the clock can take.
CanPass(start, timeoutUs) == start * 1000 + timeoutUs < (MaxTime - FineTick + 1) * 1000

FairNext ==
    \/ \E a \in PresetArgs : preset_basic_analog(a[1], a[2], a[3], a[4])
    \/ \E v \in Volts, c \in ChannelSelectors : write_analog(v, c)
    \/ wait_for_stabilization
    \/ Wake
    \/ /\ CanPass(now, ReadTimeout(ai[Self].bufferSize, ai[Self].frequency))
       /\ read_analog
    \/ \E a \in StartArgs :
          /\ CanPass(StartOf(a, now), ReadTimeout(ai[Self].bufferSize, ai[Self].frequency))
          /\ wait_for_ai_acquisition(a)
    \/ Poll
    \/ \E i \in Instances : DeviceDone(i)
    \/ \E d \in TickSteps : Tick(d)

\* the clock advances, a sleeping caller is woken and a polling caller polls again;
\* nothing obliges the device to finish
FairSpec ==
    /\ Init
    /\ [][FairNext]_vars
    /\ WF_vars(\E d \in TickSteps : Tick(d))
    /\ WF_vars(Wake)
    /\ WF_vars(Poll)

\* configuration: presets after writes, stops, waveform changes, reconfigured
\* analog-in and reads
CfgNext ==
    \/ \E a \in PresetArgs : preset_basic_analog(a[1], a[2], a[3], a[4])
    \/ \E v \in Volts, c \in ChannelSelectors : write_analog(v, c)
    \/ \E c \in ChannelSelectors : stop_analog_out(c)
    \/ \E c \in Channels : ao_nodeFunctionSet(c, "SINE")
    \/ \E n \in BufferSizes : ai_bufferSizeSet(n)
    \/ \E f \in Frequencies : ai_frequencySet(f)
    \/ read_analog
    \/ Poll
    \/ \E i \in Instances : DeviceDone(i)

CfgSpec == Init /\ [][CfgNext]_vars

----------------------------------------------------------------------------
(* Properties of the analog-out settling estimate *)

\* C1: whatever is called and however the clock advances, the stored
\* stabilized-at timestamp never decreases from one state to the next.
C1_StabilizedNeverDecreases == [][time_stabilized' >= time_stabilized]_vars

\* a write has moved the estimate ahead of a clock that has advanced
C1_Witness ==
    /\ lastCall.op = "write_analog"
    /\ now > 0
    /\ time_stabilized > now

\* the settling estimate the write rule prescribes for one channel
Estimate(t, last, volt) == t + FixedLatency + PerVoltLatency * Abs(volt - last)

\* C2: write_analog(volt, channel) with channel 0 or 1 sets stabilized-at to
\* max(previous, now + 0.013 + 0.005 * |volt - last voltage of that channel|) and that
\* channel's last voltage to volt; with channel -1 the rule is applied for both channels.
C2_WriteRulePerChannel ==
    [][ \A v \in Volts :
          /\ write_analog(v, 0) =>
                /\ time_stabilized' = Max(time_stabilized, Estimate(now, last_ao0, v))
                /\ last_ao0' = v
          /\ write_analog(v, 1) =>
                /\ time_stabilized' = Max(time_stabilized, Estimate(now, last_ao1, v))
                /\ last_ao1' = v
          /\ write_analog(v, -1) =>
                /\ time_stabilized' = Max(Max(time_stabilized, Estimate(now, last_ao0, v)),
                                          Estimate(now, last_ao1, v))
                /\ last_ao0' = v
                /\ last_ao1' = v ]_vars

\* C3: wait_for_stabilization returns 0 at once when the estimate is not later than
\* the clock, and otherwise sleeps for the remaining time and returns it; the value
\* returned is never negative and, at the return and until the next call, the
\* estimate is not later than the clock.
C3_AfterReturn ==
    (lastCall.op = "wait_for_stabilization" /\ pc = "idle") =>
        /\ ret.kind = "stabilization"
        /\ ret.n >= 0
        /\ time_stabilized <= now

C3_Steps ==
    /\ wait_for_stabilization =>
          IF time_stabilized <= now
          THEN pc' = "idle" /\ ret'.n = 0 /\ now' = now
          ELSE pc' = "sleep" /\ wait' = time_stabilized - now /\ now' = now
    /\ Wake =>
          /\ ret'.n = wait
          /\ now' = now + wait
          /\ time_stabilized <= now'

\* C3: wait_for_stabilization returns a non-negative amount, zero without blocking
\* when nothing remains, and once it has returned the stabilized-at timestamp is not
\* later than the clock.
C3_WaitForStabilization == []C3_AfterReturn /\ [][C3_Steps]_vars

\* a wait that slept has returned
C3_Witness ==
    /\ lastCall.op = "wait_for_stabilization"
    /\ pc = "idle"
    /\ ret.n > 0
    /\ time_stabilized = now

----------------------------------------------------------------------------
(* Properties of read_analog and wait_for_ai_acquisition *)

\* the time t lies later than start + 1.9 s + bufferSize / frequency
LaterThanTimeout(t, start, bufferSize, frequency) ==
    (t - start - TimeoutBase) * frequency > bufferSize * 1000

AllNone(vals) == \A k \in 1..Len(vals) : vals[k] = "None"

\* C4: a read_analog during which the device never reports 'done' does not raise:
\* it returns only None values, after more than 1.9 + n/frequency seconds since the
\* start of the wait, and produces exactly one error log entry.
C4_ReadTimesOutWithoutRaising ==
    (lastCall.op = "read_analog" /\ pc = "idle" /\ lastPoll.st # "done") =>
        /\ ret.kind = "read"
        /\ Len(ret.vals) > 0
        /\ AllNone(ret.vals)
        /\ errors = 1
        /\ LaterThanTimeout(lastPoll.t, lastCall.args[1],
                            ai[Self].bufferSize, ai[Self].frequency)

\* C5: read_analog returns 4 values when the most recent preset_basic_analog was given
\* return_std=True and 2 values when it was given return_std=False.
C5_ArityFollowsPreset ==
    (lastCall.op = "read_analog" /\ pc = "idle" /\ ret.kind = "read") =>
        Len(ret.vals) = IF presetStd THEN 4 ELSE 2

\* C6: the acquisition wait uses the timeout 1.9 + buffer size / frequency of the
\* analog-in configuration current at the call; it returns True only after a status
\* poll that saw a state other than 'done' later than start + timeout, and it returns
\* None whenever a status poll sees 'done' (no wait goes on after such a poll).
C6_AcquisitionWait ==
    /\ pc = "poll" =>
          /\ read_timeout >= TimeoutBase * 1000
          /\ read_timeout - TimeoutBase * 1000 <= ai[Self].bufferSize * 1000
          /\ (read_timeout - TimeoutBase * 1000) * ai[Self].frequency =
                 ai[Self].bufferSize * 1000000
          /\ lastPoll.st # "done"
    /\ (lastCall.op = "wait_for_ai_acquisition" /\ pc = "idle" /\ ret.kind = "acquisition") =>
          /\ ret.vals = <<"True">> =>
                /\ lastPoll.st \in {"ready", "running"}
                /\ LaterThanTimeout(lastPoll.t, lastCall.args[1],
                                    ai[Self].bufferSize, ai[Self].frequency)
          /\ lastPoll.st = "done" => ret.vals = <<"None">>
          /\ ret.vals \in {<<"True">>, <<"None">>}

\* a wait timed out under a configuration no preset produces
C6_Witness ==
    /\ lastCall.op = "wait_for_ai_acquisition"
    /\ pc = "idle"
    /\ ret.vals = <<"True">>
    /\ ai[Self].bufferSize = 20
    /\ ai[Self].frequency = DefaultFreq

\* a wait ended by a poll that saw 'done'
C6_WitnessDone ==
    /\ lastCall.op = "wait_for_ai_acquisition"
    /\ pc = "idle"
    /\ lastPoll.st = "done"
    /\ lastPoll.t > 0

\* C7: every blocking call (wait_for_stabilization, wait_for_ai_acquisition,
\* read_analog) ends, whatever the device does, and no acquisition wait goes on
\* after a status poll made later than start + timeout.
C7_NoWaitPastDeadline ==
    (pc = "poll" /\ lastPoll.st # "none") =>
        ~LaterThanTimeout(lastPoll.t, start_timestamp, ai[Self].bufferSize, ai[Self].frequency)

\* C7: while the clock keeps advancing, every blocking call (wait_for_stabilization,
\* read_analog, wait_for_ai_acquisition) ends, and no status poll is followed by more
\* waiting once the clock has passed start + timeout.
C7_BlockingCallsEnd ==
    /\ (pc # "idle") ~> (pc = "idle")
    /\ []C7_NoWaitPastDeadline

\* a read on a device that never reported 'done' has ended by its timeout
C7_Witness ==
    /\ lastCall.op = "read_analog"
    /\ pc = "idle"
    /\ ret.kind = "read"
    /\ AllNone(ret.vals)
    /\ lastPoll.st = "running"
    /\ ai[daq].state = "running"

----------------------------------------------------------------------------
(* Properties of preset_basic_analog *)

\* C8: a preset_basic_analog call that directly follows a call with the same
\* arguments changes neither the analog-in configuration (buffer size, frequency,
\* range, not started), nor the read-timeout basis, nor the analog-out state (DC on
\* all channels).
C8_SecondPresetChangesNothing ==
    \A a \in PresetArgs :
        ( /\ lastCall.op = "preset_basic_analog"
          /\ lastCall.args = <<a[1], a[2], a[3], Flag(a[4])>>
          /\ preset_basic_analog(a[1], a[2], a[3], a[4]) ) =>
            /\ ai' = ai
            /\ ai'[Self].bufferSize = a[1]
            /\ ai'[Self].frequency = a[2]
            /\ ai'[Self].range = a[3]
            /\ ai'[Self].state = "ready"
            /\ self_read_timeout' = self_read_timeout
            /\ ao' = ao
            /\ \A c \in Channels : ao'[c].func = "DC"

\* C8: a preset_basic_analog call made right after one with the same arguments leaves
\* the analog-in configuration, the read timeout basis and the analog-out state as they were.
C8_PresetIdempotent == [][C8_SecondPresetChangesNothing]_vars

\* a preset other than the constructor's has been repeated
C8_Witness ==
    /\ lastCall.op = "preset_basic_analog"
    /\ lastCall.again
    /\ lastCall.args[1] = 20

----------------------------------------------------------------------------
(* Properties of enumerate_devices *)

\* the entries of the devices before the k-th, in enumeration order
EntriesBefore(devs, k) == [j \in 1..(k - 1) |-> Entry(devs[j], j)]

Count(seq, x) == Cardinality({k \in 1..Len(seq) : seq[k] = x})

----------------------------------------------------------------------------
(* Properties of the Monitor window *)

Alive(m) == {t \in 1..Len(m.threads) : m.threads[t] = "running"}

\* C10: at most one worker thread is started and not terminated; after every
\* handler the update timer is active and a worker is alive exactly when
\* running_monitor is True; start while running and stop while not running change
\* nothing.
C10_AfterHandlers ==
    /\ Cardinality(Alive(mon)) <= 1
    /\ mon.timer_active = mon.running_monitor
    /\ (Alive(mon) # {}) = mon.running_monitor
    /\ mon.running_monitor => Alive(mon) = {mon.worker_thread}

C10_IdleHandlers ==
    /\ \A delay \in DelayTexts :
          (mon.running_monitor /\ start_monitor(delay)) => mon' = mon
    /\ (~mon.running_monitor /\ stop_monitor) => mon' = mon

\* C10: at most one monitor worker is alive, it is alive exactly while running_monitor
\* holds together with the timer, and start on a running / stop on a stopped monitor
\* change nothing.
C10_OneWorker == []C10_AfterHandlers /\ [][C10_IdleHandlers]_vars

\* the monitor runs its second worker, the first one terminated
C10_Witness ==
    /\ mon.running_monitor
    /\ mon.worker_thread = 2
    /\ mon.threads = <<"terminated", "running">>
    /\ mon.timer_active

----------------------------------------------------------------------------
(* The analog-in interface an acquisition runs on *)

\* C11: read_analog and wait_for_ai_acquisition of a controller start the acquisition,
\* poll the status and read the sample buffers on that controller's own analog-in
\* interface, whatever the module-level name daq is bound to and whether it is bound
\* at all: no call raises for the name, a read starts this controller's acquisition
\* and no other, every poll sees this controller's status, and sample data is returned
\* only when this controller's acquisition is done.
C11_OwnInterface ==
    [][/\ read_analog =>
             /\ ret'.kind # "raise"
             /\ ai' = [ai EXCEPT ![Self] = AiConfigure(@, 1)]
       /\ Poll =>
             /\ ret'.kind # "raise"
             /\ lastPoll' = [t |-> now, st |-> ai[Self].state]
             /\ (ret'.kind = "read" /\ ret'.vals = DataTuple(basic_analog_return_std))
                   => ai[Self].state = "done"]_vars

====
